---------------------------- MODULE Spec2Model ----------------------------
(***************************************************************************)
(* Model of the deep-focus-hub state layer: the useStudyTracker hook       *)
(* (hooks/useStudyTracker.ts, kept as src/unnamed/part_000) with its three *)
(* collections sessions / habits / targets mirrored to localStorage.       *)
(*                                                                         *)
(* Conventions                                                             *)
(*   - a calendar day is a day number counted from Monday 2023-12-25;      *)
(*     the 'yyyy-MM-dd' string of a day is the tuple <<year, month, day>>  *)
(*     (FormatISO), compared the way localeCompare compares the strings;   *)
(*   - an 'HH:mm' input string is a sequence of one-character strings;     *)
(*   - a JavaScript number is [t |-> "num", v |-> n]; NaN and null are     *)
(*     values of their own, as in the running program;                     *)
(*   - targetHours is kept in hundredths of an hour (5 h = 500).           *)
(***************************************************************************)
EXTENDS Integers, Sequences, FiniteSets, TLC

VARIABLES
    sessions,   \* useState<StudySession[]>   (part_000:23)
    habits,     \* useState<DailyHabits[]>    (part_000:24)
    targets,    \* useState<WeeklyTarget[]>   (part_000:25)
    storage,    \* localStorage: key -> persisted collection
    now,        \* the ambient clock (new Date()), as a day number
    nextId,     \* source of crypto.randomUUID(): never hands out an id twice
    form,       \* DailyLog: the fields of the form   (DailyLog.tsx:20-26)
    view,       \* Index: the tab shown, and the `today` of the last render
    timer,      \* PomodoroTimer: its useState values and the timeout it set
    last        \* the call that produced this state, with its arguments/result

\* the state of the components, besides the hook's
ui == <<form, view, timer>>

vars == <<sessions, habits, targets, storage, now, nextId, form, view, timer, last>>

---------------------------------------------------------------------------
(* Bounds of the model *)

MaxIds == 3
MaxWeeks == 12
NumHabitDates == 3
MaxMonthRecords == 20
MaxFormAdds == 2
ToggleDays == 1
MaxCompletions == 4
FrameDays == 7
ClockStart == 7

(* Program constants *)

BaselineTarget == 500
TargetStep == 50
TargetCap == 1000
DefaultTargetHours == 500
WorkMinutes == 25
ShortBreakMinutes == 5
LongBreakMinutes == 15

---------------------------------------------------------------------------
(* JavaScript numbers *)

Num(n) == [t |-> "num", v |-> n]
NaN == [t |-> "NaN", v |-> 0]
Null == [t |-> "null", v |-> 0]

\* `x <= 0` on a number: every comparison with NaN is false
JsLeqZero(x) == x.t = "num" /\ x.v <= 0

---------------------------------------------------------------------------
(* Calendar: date-fns format / startOfWeek / subWeeks on day numbers *)

IsLeap(y) == (y % 4 = 0 /\ y % 100 # 0) \/ y % 400 = 0

DaysInMonth(y, m) ==
    IF m = 2 THEN (IF IsLeap(y) THEN 29 ELSE 28)
    ELSE IF m \in {4, 6, 9, 11} THEN 30 ELSE 31

RECURSIVE NormalizeYMD(_, _, _)
NormalizeYMD(y, m, d) ==
    IF d > DaysInMonth(y, m)
    THEN IF m = 12 THEN NormalizeYMD(y + 1, 1, d - DaysInMonth(y, m))
                   ELSE NormalizeYMD(y, m + 1, d - DaysInMonth(y, m))
    ELSE <<y, m, d>>

\* format(date, 'yyyy-MM-dd'); day 0 is Monday 2023-12-25
FormatISO(day) == NormalizeYMD(2023, 12, 25 + day)

\* a.localeCompare(b) < 0 on two 'yyyy-MM-dd' strings
DateBefore(a, b) ==
    \/ a[1] < b[1]
    \/ a[1] = b[1] /\ a[2] < b[2]
    \/ a[1] = b[1] /\ a[2] = b[2] /\ a[3] < b[3]

\* Date.getDay(): 0 = Sunday .. 6 = Saturday
GetDay(day) == (day + 1) % 7

\* startOfWeek(date, { weekStartsOn })
StartOfWeek(day, weekStartsOn) ==
    LET d == GetDay(day)
        diff == (IF d < weekStartsOn THEN 7 ELSE 0) + d - weekStartsOn
    IN  day - diff

SubWeeks(day, n) == day - 7 * n

---------------------------------------------------------------------------
(* date-fns parse(str, 'HH:mm', referenceDate) and differenceInMinutes *)

DigitChars == <<"0", "1", "2", "3", "4", "5", "6", "7", "8", "9">>
IsDigit(c) == \E i \in 1..10 : DigitChars[i] = c
DigitVal(c) == (CHOOSE i \in 1..10 : DigitChars[i] = c) - 1

InvalidDate == [valid |-> FALSE, t |-> 0]

\* parseNDigits(2, s): the regular expression ^\d{1,2}, greedy
CountDigits2(s) ==
    IF Len(s) >= 1 /\ IsDigit(s[1])
    THEN (IF Len(s) >= 2 /\ IsDigit(s[2]) THEN 2 ELSE 1)
    ELSE 0

DigitsValue(s, n) ==
    IF n = 1 THEN DigitVal(s[1]) ELSE 10 * DigitVal(s[1]) + DigitVal(s[2])

\* the instant, in minutes, of hh:mm on the reference day, or Invalid Date
ParseHHmm(s, refDay) ==
    LET nh == CountDigits2(s)
        rest1 == SubSeq(s, nh + 1, Len(s))
        rest2 == SubSeq(rest1, 2, Len(rest1))
        nm == CountDigits2(rest2)
        rest3 == SubSeq(rest2, nm + 1, Len(rest2))
    IN  IF nh = 0 \/ DigitsValue(s, nh) > 23 THEN InvalidDate
        ELSE IF Len(rest1) = 0 \/ rest1[1] # ":" THEN InvalidDate
        ELSE IF nm = 0 \/ DigitsValue(rest2, nm) > 59 THEN InvalidDate
        ELSE IF Len(rest3) > 0 THEN InvalidDate
        ELSE [valid |-> TRUE,
              t |-> refDay * 1440 + DigitsValue(s, nh) * 60 + DigitsValue(rest2, nm)]

\* faulty variant of DifferenceInMinutes: the operands the wrong way round
DifferenceInMinutesSwapped(later, earlier) ==
    IF later.valid /\ earlier.valid THEN Num(earlier.t - later.t) ELSE NaN

\* differenceInMinutes(later, earlier): NaN as soon as one date is invalid
DifferenceInMinutes(later, earlier) ==
    IF later.valid /\ earlier.valid THEN Num(later.t - earlier.t) ELSE NaN

---------------------------------------------------------------------------
(* Persistent store: loadFromStorage / saveToStorage over localStorage *)

Absent == [kind |-> "absent", data |-> <<>>]

\* JSON.stringify of a number: NaN has no JSON form and is written as null
JsonNumber(x) == IF x.t = "NaN" THEN Null ELSE x

StringifySession(s) ==
    [s EXCEPT !.durationMinutes = JsonNumber(@),
              !.focusQuality = JsonNumber(@),
              !.distractionCount = JsonNumber(@)]

\* JSON.stringify(data) for each of the three collections
StringifySessions(data) == [i \in 1..Len(data) |-> StringifySession(data[i])]
StringifyHabits(data) == data
StringifyTargets(data) == data

\* localStorage.setItem(key, JSON.stringify(data)): the whole collection
saveToStorage(text) == [kind |-> "json", data |-> text]

\* what localStorage can hold under a key besides an array written by
\* saveToStorage: the empty string, text that is no JSON, and the JSON texts
\* null, 42 and {}
EmptyText == [kind |-> "empty", data |-> <<>>]
MalformedText == [kind |-> "malformed", data |-> <<>>]
NullText == [kind |-> "null", data |-> <<>>]
NumberText == [kind |-> "number", data |-> <<>>]
ObjectText == [kind |-> "object", data |-> <<>>]

JsonObject == [object |-> "{}"]

\* JSON.parse of a text that parses
JsonParse(item) ==
    CASE item.kind = "json" -> item.data
      [] item.kind = "null" -> Null
      [] item.kind = "number" -> Num(42)
      [] item.kind = "object" -> JsonObject

\* try { data ? JSON.parse(data) : fallback } catch { fallback }
loadFromStorage(item, fallback) ==
    IF item.kind \in {"absent", "empty"} THEN fallback
    ELSE IF item.kind = "malformed" THEN fallback
    ELSE JsonParse(item)

---------------------------------------------------------------------------
(* Index: the page, its tabs, and what its last render handed down *)

Tabs == {"daily", "timer", "habits", "dashboard", "progression"}

\* one render of Index: `today` is format(new Date(), 'yyyy-MM-dd') read while
\* rendering; it lives on in the handlers of HabitTracker, the one component
\* that keeps it, and is left out (<<>>) while that component is not shown
RenderView(tab, day) ==
    [activeTab |-> tab, today |-> IF tab = "habits" THEN FormatISO(day) ELSE <<>>]

\* a state change of the hook or of Index renders the page again
Rendered(v, day) == RenderView(v.activeTab, day)

---------------------------------------------------------------------------
(* Session ledger *)

T0905 == <<"0", "9", ":", "0", "5">>
T1300 == <<"1", "3", ":", "0", "0">>
T1430 == <<"1", "4", ":", "3", "0">>
T2400 == <<"2", "4", ":", "0", "0">>

\* the <<startTime, endTime>> strings handed to addSession: end after start,
\* end equal to start, end before start, and a start that is no time of day
TimePairs ==
    {<<T0905, T1430>>, <<T1300, T1430>>, <<T0905, T1300>>, <<T1430, T1430>>,
     <<T1430, T0905>>, <<T2400, T0905>>, <<T0905, T2400>>}

SessionDates == {FormatISO(ClockStart), FormatISO(ClockStart + 1)}

\* Omit<StudySession, 'id' | 'durationMinutes'>
Drafts ==
    {[date |-> d, subject |-> "math", startTime |-> p[1], endTime |-> p[2],
      focusQuality |-> Num(3), distractionCount |-> Num(0),
      energyLevel |-> "medium", notes |-> ""] : d \in SessionDates, p \in TimePairs}

SessionIds == 1..MaxIds

\* { ...session, id: crypto.randomUUID(), durationMinutes }
NewSession(session, id, durationMinutes) ==
    [id |-> id, durationMinutes |-> durationMinutes,
     date |-> session.date, subject |-> session.subject,
     startTime |-> session.startTime, endTime |-> session.endTime,
     focusQuality |-> session.focusQuality,
     distractionCount |-> session.distractionCount,
     energyLevel |-> session.energyLevel, notes |-> session.notes]

\* faulty variant of addSession: the guard lets a zero duration through
addSessionStrictGuard(prev, session, id, refDay) ==
    LET start == ParseHHmm(session.startTime, refDay)
        end == ParseHHmm(session.endTime, refDay)
        durationMinutes == DifferenceInMinutes(end, start)
    IN  IF durationMinutes.t = "num" /\ durationMinutes.v < 0
        THEN prev
        ELSE Append(prev, NewSession(session, id, durationMinutes))

\* faulty variant of addSession: the new record is put in front
addSessionPrepend(prev, session, id, refDay) ==
    LET start == ParseHHmm(session.startTime, refDay)
        end == ParseHHmm(session.endTime, refDay)
        durationMinutes == DifferenceInMinutes(end, start)
    IN  IF JsLeqZero(durationMinutes)
        THEN prev
        ELSE <<NewSession(session, id, durationMinutes)>> \o prev

addSession(prev, session, id, refDay) ==
    LET start == ParseHHmm(session.startTime, refDay)
        end == ParseHHmm(session.endTime, refDay)
        durationMinutes == DifferenceInMinutes(end, start)
    IN  IF JsLeqZero(durationMinutes)
        THEN prev
        ELSE Append(prev, NewSession(session, id, durationMinutes))

\* faulty variant of deleteSession: the filter keeps what it should drop
deleteSessionKeepsMatch(prev, id) == SelectSeq(prev, LAMBDA s : s.id = id)

deleteSession(prev, id) == SelectSeq(prev, LAMBDA s : s.id # id)

AddSession(session) ==
    /\ nextId <= MaxIds
    /\ sessions' = addSession(sessions, session, nextId, now)
    /\ nextId' = IF sessions' # sessions THEN nextId + 1 ELSE nextId
    /\ storage' = IF sessions' # sessions
                  THEN [storage EXCEPT
                          !.sessions = saveToStorage(StringifySessions(sessions'))]
                  ELSE storage
    /\ last' = [op |-> "addSession", draft |-> session]
    /\ view' = IF sessions' # sessions THEN Rendered(view, now) ELSE view
    /\ UNCHANGED <<habits, targets, now, form, timer>>

DeleteSession(id) ==
    /\ sessions' = deleteSession(sessions, id)
    /\ storage' = [storage EXCEPT
                     !.sessions = saveToStorage(StringifySessions(sessions'))]
    /\ last' = [op |-> "deleteSession", id |-> id]
    /\ view' = Rendered(view, now)
    /\ UNCHANGED <<habits, targets, now, nextId, form, timer>>

---------------------------------------------------------------------------
(* Statistics over the session ledger *)

\* a + b on numbers read from the ledger: NaN is contagious, null counts 0
JsAdd(a, b) ==
    IF a.t = "NaN" \/ b.t = "NaN" THEN NaN ELSE Num(a.v + b.v)

\* x || 0 on a number or undefined: undefined, null, NaN and 0 are falsy
Undefined == [t |-> "undefined", v |-> 0]
JsOrZero(x) == IF x.t = "num" THEN x ELSE Num(0)

\* a / d, kept as the fraction; NaN stays NaN
JsDivide(a, d) ==
    IF a.t = "NaN" THEN NaN ELSE [t |-> "ratio", n |-> a.v, d |-> d]

\* ss.reduce((sum, s) => sum + s.durationMinutes, 0)
RECURSIVE SumDurations(_)
SumDurations(ss) ==
    IF ss = <<>> THEN Num(0)
    ELSE JsAdd(SumDurations(SubSeq(ss, 1, Len(ss) - 1)),
               ss[Len(ss)].durationMinutes)

\* ss.reduce((sum, s) => sum + s.focusQuality, 0)
RECURSIVE SumFocus(_)
SumFocus(ss) ==
    IF ss = <<>> THEN Num(0)
    ELSE JsAdd(SumFocus(SubSeq(ss, 1, Len(ss) - 1)), ss[Len(ss)].focusQuality)

getSessionsForDate(ss, date) == SelectSeq(ss, LAMBDA s : s.date = date)

\* faulty variant of RoundHours: the hundredths are cut off, not rounded
RoundHoursTruncated(totalMinutes) ==
    IF totalMinutes.t = "NaN" THEN NaN ELSE Num((10 * totalMinutes.v) \div 6)

\* Math.round((totalMinutes / 60) * 100) / 100, the result in hundredths of
\* an hour: Math.round(x) is floor(x + 0.5) and x = 10 * totalMinutes / 6
RoundHours(totalMinutes) ==
    IF totalMinutes.t = "NaN" THEN NaN ELSE Num((10 * totalMinutes.v + 3) \div 6)

getDailyTotalHours(ss, date) ==
    LET daySessions == getSessionsForDate(ss, date)
        totalMinutes == SumDurations(daySessions)
    IN  RoundHours(totalMinutes)

\* the day number of year-month-day, counted from 2023-12-25
RECURSIVE DayNumber(_, _, _)
DayNumber(y, m, d) ==
    IF y = 2023 /\ m = 12 THEN d - 25
    ELSE IF m = 1 THEN DayNumber(y - 1, 12, 31) + d
    ELSE DayNumber(y, m - 1, DaysInMonth(y, m - 1)) + d

\* parseISO('yyyy-MM-dd'): local midnight of that day
ParseISO(date) == [valid |-> TRUE, t |-> DayNumber(date[1], date[2], date[3]) * 1440]

\* a Date at hh:mm of a day
DateAt(day, hh, mm) == [valid |-> TRUE, t |-> day * 1440 + hh * 60 + mm]

\* faulty variant of EndOfWeek: six days after the date itself
EndOfWeekPlusSix(date, weekStartsOn) ==
    [valid |-> TRUE, t |-> (date.t \div 1440 + 6) * 1440 + 1439]

\* endOfWeek(date, { weekStartsOn }): the last minute of the week's last day
EndOfWeek(date, weekStartsOn) ==
    LET day == GetDay(date.t \div 1440)
        diff == (IF day < weekStartsOn THEN -7 ELSE 0) + 6 - (day - weekStartsOn)
    IN  [valid |-> TRUE, t |-> (date.t \div 1440 + diff) * 1440 + 1439]

\* isWithinInterval(date, { start, end })
IsWithinInterval(date, start, end) == date.t >= start.t /\ date.t <= end.t

\* weekSessions.forEach(s => subjectMap[s.subject] = (subjectMap[s.subject] || 0) + s.durationMinutes)
RECURSIVE SubjectMap(_)
SubjectMap(ws) ==
    IF ws = <<>> THEN [k \in {} |-> Num(0)]
    ELSE LET m == SubjectMap(SubSeq(ws, 1, Len(ws) - 1))
             s == ws[Len(ws)]
             old == IF s.subject \in DOMAIN m THEN m[s.subject] ELSE Undefined
         IN  [k \in (DOMAIN m) \cup {s.subject} |->
                IF k = s.subject THEN JsAdd(JsOrZero(old), s.durationMinutes)
                ELSE m[k]]

getWeeklyStats(ss, weekStart) ==
    LET weekEnd == EndOfWeek(weekStart, 1)
        weekSessions ==
            SelectSeq(ss, LAMBDA s : IsWithinInterval(ParseISO(s.date), weekStart, weekEnd))
        totalMinutes == SumDurations(weekSessions)
        totalHours == JsDivide(totalMinutes, 60)
        avgFocus == IF Len(weekSessions) > 0
                    THEN JsDivide(SumFocus(weekSessions), Len(weekSessions))
                    ELSE Num(0)
    IN  [totalHours |-> totalHours, avgFocus |-> avgFocus,
         subjectMap |-> SubjectMap(weekSessions),
         sessionCount |-> Len(weekSessions)]

\* the sessions logged while the statistics are watched: two subjects, three
\* durations (325 min, 90 min, none), dates inside and around the current week
StatsDraft(day, subject, pair, focus) ==
    [date |-> FormatISO(day), subject |-> subject,
     startTime |-> pair[1], endTime |-> pair[2],
     focusQuality |-> Num(focus), distractionCount |-> Num(0),
     energyLevel |-> "medium", notes |-> ""]

StatsDrafts ==
    {StatsDraft(ClockStart, "math", <<T0905, T1430>>, 3),
     StatsDraft(ClockStart, "physics", <<T1300, T1430>>, 5),
     StatsDraft(ClockStart, "math", <<T2400, T0905>>, 2),
     StatsDraft(ClockStart - 1, "math", <<T1300, T1430>>, 3),
     StatsDraft(ClockStart + 6, "physics", <<T0905, T1430>>, 4),
     StatsDraft(ClockStart + 7, "math", <<T1300, T1430>>, 1),
     StatsDraft(ClockStart + 2, "math", <<T1300, T1430>>, 5)}

\* the dates asked for: those of the drafts and one that has no session
StatsDates == {FormatISO(ClockStart + k) : k \in {-1, 0, 1, 2, 6, 7}}

\* the weekStart dates asked for: the current Monday as the dashboard passes
\* it, the Wednesday of that week, and the Monday at 10:00
WeekStarts ==
    {DateAt(StartOfWeek(ClockStart, 1), 0, 0),
     DateAt(StartOfWeek(ClockStart, 1) + 2, 0, 0),
     DateAt(StartOfWeek(ClockStart, 1), 10, 0)}

\* date.setDate(dayOfMonth) on the date y-m: a day below 1 runs into the
\* months before, a day past the month's end into the months after
RECURSIVE SetDate(_, _, _)
SetDate(y, m, d) ==
    IF d < 1
    THEN IF m = 1 THEN SetDate(y - 1, 12, d + 31)
                  ELSE SetDate(y, m - 1, d + DaysInMonth(y, m - 1))
    ELSE NormalizeYMD(y, m, d)

\* format(date, 'EEE')
DayNames == <<"Sun", "Mon", "Tue", "Wed", "Thu", "Fri", "Sat">>
FormatEEE(date) == DayNames[GetDay(DayNumber(date[1], date[2], date[3])) + 1]

\* the entry pushed for i days ago
DayEntry(ss, today, i) ==
    LET date == FormatISO(today)
        dateStr == SetDate(date[1], date[2], date[3] - i)
    IN  [date |-> FormatEEE(dateStr), fullDate |-> dateStr,
         hours |-> getDailyTotalHours(ss, dateStr),
         sessions |-> getSessionsForDate(ss, dateStr)]

\* faulty variant of getLast7DaysData: the loop runs from today backwards
getLast7DaysDataNewestFirst(ss, today) ==
    [k \in 1..7 |-> DayEntry(ss, today, k - 1)]

\* for (let i = 6; i >= 0; i--) data.push(...)
getLast7DaysData(ss, today) ==
    [k \in 1..7 |-> DayEntry(ss, today, 7 - k)]

GetLast7DaysData ==
    /\ last' = [op |-> "getLast7DaysData", ret |-> getLast7DaysData(sessions, now)]
    /\ UNCHANGED <<sessions, habits, targets, storage, now, nextId, ui>>

GetSessionsForDate(date) ==
    /\ last' = [op |-> "getSessionsForDate", date |-> date,
                ret |-> getSessionsForDate(sessions, date)]
    /\ UNCHANGED <<sessions, habits, targets, storage, now, nextId, ui>>

GetDailyTotalHours(date) ==
    /\ last' = [op |-> "getDailyTotalHours", date |-> date,
                ret |-> getDailyTotalHours(sessions, date)]
    /\ UNCHANGED <<sessions, habits, targets, storage, now, nextId, ui>>

GetWeeklyStats(weekStart) ==
    /\ last' = [op |-> "getWeeklyStats", weekStart |-> weekStart,
                ret |-> getWeeklyStats(sessions, weekStart)]
    /\ UNCHANGED <<sessions, habits, targets, storage, now, nextId, ui>>

---------------------------------------------------------------------------
(* DailyLog: the form that logs a session *)

\* useState('') ... useState('3'), useState('0'), useState('medium'); the
\* selected date is Index's useState(format(new Date(), 'yyyy-MM-dd'))
NewForm(today) ==
    [selectedDate |-> FormatISO(today), subject |-> "", startTime |-> <<>>,
     endTime |-> <<>>, focusQuality |-> <<"3">>, distractionCount |-> <<"0">>,
     energyLevel |-> "medium", notes |-> ""]

\* the values the focus Select offers: String(n) for n in 1..5
FocusTexts == {<<"3">>, <<"5">>}

\* what the number input can hold: a valid number text or the empty string
DistractionTexts == {<<"0">>, <<>>, <<"-", "3">>, <<"2", ".", "5">>}

\* the digits s begins with
RECURSIVE LeadingDigits(_)
LeadingDigits(s) ==
    IF Len(s) >= 1 /\ IsDigit(s[1])
    THEN <<s[1]>> \o LeadingDigits(SubSeq(s, 2, Len(s)))
    ELSE <<>>

\* the number written by a sequence of digits
RECURSIVE DecimalValue(_)
DecimalValue(ds) ==
    IF ds = <<>> THEN 0
    ELSE 10 * DecimalValue(SubSeq(ds, 1, Len(ds) - 1)) + DigitVal(ds[Len(ds)])

\* parseInt(s): leading blanks, a sign, then the longest run of digits; NaN
\* when there is no digit
RECURSIVE ParseInt(_)
ParseInt(s) ==
    IF Len(s) >= 1 /\ s[1] = " " THEN ParseInt(SubSeq(s, 2, Len(s)))
    ELSE LET signed == Len(s) >= 1 /\ s[1] \in {"-", "+"}
             body == IF signed THEN SubSeq(s, 2, Len(s)) ELSE s
             ds == LeadingDigits(body)
         IN  IF ds = <<>> THEN NaN
             ELSE IF signed /\ s[1] = "-" THEN Num(0 - DecimalValue(ds))
             ELSE Num(DecimalValue(ds))

SetSubject(text) ==
    /\ view.activeTab = "daily"
    /\ form' = [form EXCEPT !.subject = text]
    /\ last' = [op |-> "setSubject"]
    /\ UNCHANGED <<sessions, habits, targets, storage, now, nextId, view, timer>>

SetStartTime(text) ==
    /\ view.activeTab = "daily"
    /\ form' = [form EXCEPT !.startTime = text]
    /\ last' = [op |-> "setStartTime"]
    /\ UNCHANGED <<sessions, habits, targets, storage, now, nextId, view, timer>>

SetEndTime(text) ==
    /\ view.activeTab = "daily"
    /\ form' = [form EXCEPT !.endTime = text]
    /\ last' = [op |-> "setEndTime"]
    /\ UNCHANGED <<sessions, habits, targets, storage, now, nextId, view, timer>>

SetFocusQuality(text) ==
    /\ view.activeTab = "daily"
    /\ form' = [form EXCEPT !.focusQuality = text]
    /\ last' = [op |-> "setFocusQuality"]
    /\ UNCHANGED <<sessions, habits, targets, storage, now, nextId, view, timer>>

SetDistractionCount(text) ==
    /\ view.activeTab = "daily"
    /\ form' = [form EXCEPT !.distractionCount = text]
    /\ last' = [op |-> "setDistractionCount"]
    /\ UNCHANGED <<sessions, habits, targets, storage, now, nextId, view, timer>>

\* the draft handleAdd hands to onAddSession (tracker.addSession)
FormDraft(f) ==
    [date |-> f.selectedDate, subject |-> f.subject,
     startTime |-> f.startTime, endTime |-> f.endTime,
     focusQuality |-> ParseInt(f.focusQuality),
     distractionCount |-> ParseInt(f.distractionCount),
     energyLevel |-> f.energyLevel, notes |-> f.notes]

HandleAdd ==
    /\ view.activeTab = "daily"
    /\ nextId <= MaxFormAdds
    /\ IF form.subject = "" \/ form.startTime = <<>> \/ form.endTime = <<>>
       THEN UNCHANGED <<sessions, storage, nextId, form>>
       ELSE /\ sessions' = addSession(sessions, FormDraft(form), nextId, now)
            /\ nextId' = IF sessions' # sessions THEN nextId + 1 ELSE nextId
            /\ storage' = IF sessions' # sessions
                          THEN [storage EXCEPT
                                  !.sessions = saveToStorage(StringifySessions(sessions'))]
                          ELSE storage
            /\ form' = [form EXCEPT !.subject = "", !.startTime = <<>>,
                                    !.endTime = <<>>, !.notes = "",
                                    !.distractionCount = <<"0">>]
    /\ last' = [op |-> "handleAdd", draft |-> FormDraft(form)]
    /\ UNCHANGED <<habits, targets, now, view, timer>>

---------------------------------------------------------------------------
(* PomodoroTimer: a countdown per mode and the switch to the next mode *)

TimerModes == {"work", "shortBreak", "longBreak"}

\* MODE_CONFIG[mode].minutes
ModeMinutes(mode) ==
    CASE mode = "work" -> WorkMinutes
      [] mode = "shortBreak" -> ShortBreakMinutes
      [] mode = "longBreak" -> LongBreakMinutes

\* the useState initial values; pending is the mode of the switch that
\* setTimeout(..., 500) has scheduled and that has not run yet
NewTimer ==
    [mode |-> "work", timeLeft |-> WorkMinutes * 60, isRunning |-> FALSE,
     sessionsCompleted |-> 0, totalFocusMinutes |-> 0, pending |-> "none"]

switchMode(t, newMode) ==
    [t EXCEPT !.mode = newMode, !.timeLeft = ModeMinutes(newMode) * 60,
              !.isRunning = FALSE]

\* faulty variant of nextMode: the long break is never chosen
nextModeAlwaysShort(newCount) == "shortBreak"

\* newCount % 4 === 0 ? 'longBreak' : 'shortBreak'
nextMode(newCount) == IF newCount % 4 = 0 THEN "longBreak" ELSE "shortBreak"

\* faulty variant of countdownDone: the minutes are added, the session is
\* not counted
countdownDoneMinutesOnly(t) ==
    IF t.mode = "work"
    THEN [t EXCEPT !.timeLeft = 0, !.isRunning = FALSE,
                   !.totalFocusMinutes = @ + ModeMinutes("work"),
                   !.pending = nextMode(t.sessionsCompleted + 1)]
    ELSE [t EXCEPT !.timeLeft = 0, !.isRunning = FALSE, !.pending = "work"]

\* the branch `prev <= 1` of the interval's updater
countdownDone(t) ==
    IF t.mode = "work"
    THEN LET newCount == t.sessionsCompleted + 1
         IN  [t EXCEPT !.timeLeft = 0, !.isRunning = FALSE,
                       !.sessionsCompleted = newCount,
                       !.totalFocusMinutes = @ + ModeMinutes("work"),
                       !.pending = nextMode(newCount)]
    ELSE [t EXCEPT !.timeLeft = 0, !.isRunning = FALSE, !.pending = "work"]

\* one firing of the interval set while isRunning. The updater runs once per
\* firing. The interval is set 1000 ms after a start and the scheduled switch
\* runs 500 ms after a countdown ended, so no firing comes before a switch
\* that is still scheduled.
Countdown ==
    /\ view.activeTab = "timer"
    /\ timer.isRunning
    /\ timer.pending = "none"
    /\ timer.timeLeft <= 1 /\ timer.mode = "work"
            => timer.sessionsCompleted < MaxCompletions
    /\ timer' = IF timer.timeLeft <= 1 THEN countdownDone(timer)
                ELSE [timer EXCEPT !.timeLeft = @ - 1]
    /\ last' = [op |-> "countdown", done |-> timer.timeLeft <= 1]
    /\ UNCHANGED <<sessions, habits, targets, storage, now, nextId, form, view>>

\* the callback of setTimeout(() => switchMode(nextMode), 500)
DelayedSwitch ==
    /\ view.activeTab = "timer"
    /\ timer.pending # "none"
    /\ timer' = [switchMode(timer, timer.pending) EXCEPT !.pending = "none"]
    /\ last' = [op |-> "delayedSwitch", mode |-> timer.pending]
    /\ UNCHANGED <<sessions, habits, targets, storage, now, nextId, form, view>>

ToggleTimer ==
    /\ view.activeTab = "timer"
    /\ timer' = [timer EXCEPT !.isRunning = ~timer.isRunning]
    /\ last' = [op |-> "toggleTimer"]
    /\ UNCHANGED <<sessions, habits, targets, storage, now, nextId, form, view>>

ResetTimer ==
    /\ view.activeTab = "timer"
    /\ timer' = [timer EXCEPT !.isRunning = FALSE,
                              !.timeLeft = ModeMinutes(timer.mode) * 60]
    /\ last' = [op |-> "reset"]
    /\ UNCHANGED <<sessions, habits, targets, storage, now, nextId, form, view>>

\* the skip button
SkipMode ==
    /\ view.activeTab = "timer"
    /\ timer' = IF timer.mode = "work" THEN switchMode(timer, "shortBreak")
                ELSE switchMode(timer, "work")
    /\ last' = [op |-> "skip"]
    /\ UNCHANGED <<sessions, habits, targets, storage, now, nextId, form, view>>

\* a button of the mode selector
SelectMode(m) ==
    /\ view.activeTab = "timer"
    /\ timer' = switchMode(timer, m)
    /\ last' = [op |-> "selectMode", mode |-> m]
    /\ UNCHANGED <<sessions, habits, targets, storage, now, nextId, form, view>>

\* setActiveTab(tab): the component of the tab left is unmounted and loses
\* its state (a callback it scheduled no longer changes anything); the date
\* DailyLog shows is state of Index and stays
SetActiveTab(tab) ==
    /\ tab # view.activeTab
    /\ view' = RenderView(tab, now)
    /\ form' = [NewForm(now) EXCEPT !.selectedDate = form.selectedDate]
    /\ timer' = NewTimer
    /\ last' = [op |-> "setActiveTab", tab |-> tab]
    /\ UNCHANGED <<sessions, habits, targets, storage, now, nextId>>

---------------------------------------------------------------------------
(* Habit ledger *)

HabitKeys ==
    <<"wakeUpOnTime", "sleepEnough", "exercise", "englishPractice", "noPorn",
      "noSocialMedia">>

HabitKeySet == {HabitKeys[i] : i \in 1..Len(HabitKeys)}

\* a DailyHabits record: the flags in `on` are true, the others false
MkHabits(date, on) ==
    [date |-> date,
     wakeUpOnTime |-> "wakeUpOnTime" \in on, sleepEnough |-> "sleepEnough" \in on,
     exercise |-> "exercise" \in on, englishPractice |-> "englishPractice" \in on,
     noPorn |-> "noPorn" \in on, noSocialMedia |-> "noSocialMedia" \in on]

\* dates two days apart, the first in the old year: 2023-12-31, 2024-01-02, ...
HabitDates == {FormatISO(ClockStart - 3 + 2 * i) : i \in 1..NumHabitDates}

HabitFlagSets ==
    {{}, HabitKeySet, {"exercise"}, {"sleepEnough"}, HabitKeySet \ {"exercise"}}

HabitInputs == {MkHabits(d, on) : d \in HabitDates, on \in HabitFlagSets}

\* prev.findIndex(h => h.date === date), 1-based; 0 where the code gets -1
FindHabitsIndex(prev, date) ==
    IF \E i \in 1..Len(prev) : prev[i].date = date
    THEN CHOOSE i \in 1..Len(prev) :
            prev[i].date = date /\ \A j \in 1..(i - 1) : prev[j].date # date
    ELSE 0

\* faulty variant of updateHabits: an existing record is merged flag by flag
updateHabitsMerge(prev, dailyHabits) ==
    LET existing == FindHabitsIndex(prev, dailyHabits.date)
    IN  IF existing >= 1
        THEN [prev EXCEPT ![existing] =
                [k \in DOMAIN dailyHabits |->
                    IF k = "date" THEN dailyHabits.date ELSE @[k] \/ dailyHabits[k]]]
        ELSE Append(prev, dailyHabits)

\* faulty variant of updateHabits: no look-up of the date, always a new record
updateHabitsAlwaysAppend(prev, dailyHabits) == Append(prev, dailyHabits)

updateHabits(prev, dailyHabits) ==
    LET existing == FindHabitsIndex(prev, dailyHabits.date)
    IN  IF existing >= 1
        THEN [prev EXCEPT ![existing] = dailyHabits]
        ELSE Append(prev, dailyHabits)

\* [...habits].sort((a, b) => a.date.localeCompare(b.date)): stable
RECURSIVE InsertByDate(_, _)
InsertByDate(sorted, h) ==
    IF sorted = <<>> THEN <<h>>
    ELSE IF DateBefore(h.date, sorted[Len(sorted)].date)
         THEN Append(InsertByDate(SubSeq(sorted, 1, Len(sorted) - 1), h),
                     sorted[Len(sorted)])
         ELSE Append(sorted, h)

\* faulty variant of SortByDate: the records stay in insertion order
SortByInsertion(seq) == seq

RECURSIVE SortByDate(_)
SortByDate(seq) ==
    IF seq = <<>> THEN <<>>
    ELSE InsertByDate(SortByDate(SubSeq(seq, 1, Len(seq) - 1)), seq[Len(seq)])

\* faulty variant of StreakFrom: the scan also stops where the record before
\* is not of the calendar day before
RECURSIVE StreakFromDayByDay(_, _, _)
StreakFromDayByDay(sortedHabits, key, i) ==
    IF i >= 1 /\ sortedHabits[i][key]
    THEN 1 + (IF i >= 2 /\ ParseISO(sortedHabits[i - 1].date).t + 1440
                            = ParseISO(sortedHabits[i].date).t
              THEN StreakFromDayByDay(sortedHabits, key, i - 1)
              ELSE 0)
    ELSE 0

\* for (i = length - 1; i >= 0; i--) if (sortedHabits[i][key]) streak++ else break
RECURSIVE StreakFrom(_, _, _)
StreakFrom(sortedHabits, key, i) ==
    IF i >= 1 /\ sortedHabits[i][key]
    THEN 1 + StreakFrom(sortedHabits, key, i - 1)
    ELSE 0

getHabitStreaks(hs) ==
    LET sortedHabits == SortByDate(hs)
    IN  [key \in HabitKeySet |-> StreakFrom(sortedHabits, key, Len(sortedHabits))]

UpdateHabits(dailyHabits) ==
    /\ habits' = updateHabits(habits, dailyHabits)
    /\ storage' = [storage EXCEPT
                     !.habits = saveToStorage(StringifyHabits(habits'))]
    /\ last' = [op |-> "updateHabits", record |-> dailyHabits]
    /\ view' = Rendered(view, now)
    /\ UNCHANGED <<sessions, targets, now, nextId, form, timer>>

\* habits.find(h => h.date === date)
getHabitsForDate(hs, date) ==
    IF FindHabitsIndex(hs, date) = 0 THEN Undefined
    ELSE hs[FindHabitsIndex(hs, date)]

GetHabitsForDate(date) ==
    /\ last' = [op |-> "getHabitsForDate", date |-> date,
                ret |-> getHabitsForDate(habits, date)]
    /\ UNCHANGED <<sessions, habits, targets, storage, now, nextId, ui>>

\* HabitTracker: `habits || { date: today, <every flag false> }`, on the prop
\* habits = getHabitsForDate(today) and the `today` of the render
currentHabits(hs, today) ==
    IF FindHabitsIndex(hs, today) = 0 THEN MkHabits(today, {})
    ELSE getHabitsForDate(hs, today)

\* { ...currentHabits, date: today, [key]: !currentHabits[key] }
toggleHabit(cur, today, key) == [cur EXCEPT !.date = today, ![key] = ~@]

\* a click on a habit: the handler is the one the last render built, over
\* that render's `today` and its habits prop; the collection has not changed
\* since, as every change of it renders the page again
ToggleHabit(key) ==
    /\ view.activeTab = "habits"
    /\ LET record == toggleHabit(currentHabits(habits, view.today), view.today, key)
       IN  /\ habits' = updateHabits(habits, record)
           /\ last' = [op |-> "toggleHabit", key |-> key, record |-> record]
    /\ storage' = [storage EXCEPT
                     !.habits = saveToStorage(StringifyHabits(habits'))]
    /\ view' = Rendered(view, now)
    /\ UNCHANGED <<sessions, targets, now, nextId, form, timer>>

\* faulty variant of GetHabitStreaks: habits.sort(...) on the state array
\* itself instead of the copy [...habits]
GetHabitStreaksInPlace ==
    /\ habits' = SortByDate(habits)
    /\ last' = [op |-> "getHabitStreaks", ret |-> getHabitStreaks(habits)]
    /\ UNCHANGED <<sessions, targets, storage, now, nextId, ui>>

GetHabitStreaks ==
    /\ last' = [op |-> "getHabitStreaks", ret |-> getHabitStreaks(habits)]
    /\ UNCHANGED <<sessions, habits, targets, storage, now, nextId, ui>>

\* 2^s modulo m
RECURSIVE Pow2Mod(_, _)
Pow2Mod(s, m) == IF s = 0 THEN 1 % m ELSE (2 * Pow2Mod(s - 1, m)) % m

\* the least j >= from with part * 2^j >= whole, for 0 < part <= whole
RECURSIVE BinaryShift(_, _, _)
BinaryShift(part, whole, from) ==
    IF part * 2^from >= whole THEN from ELSE BinaryShift(part, whole, from + 1)

\* Math.round((part / whole) * 100) in IEEE-754 double arithmetic, for
\* integers 0 <= part <= whole, whole > 0.  With k the exact percentage
\* rounded half up, the doubles give k unless the exact percentage is
\* k - 0.5: the quotient q = RN(part / whole) has a 53-bit mantissa at scale
\* 2^-s, s = 52 + j, and errs by -r / (whole * 2^s) when the remainder
\* r = part * 2^s mod whole is below whole / 2 (otherwise it is exact or
\* errs upwards).  RN(q * 100) then falls below k - 0.5, and Math.round
\* gives k - 1, exactly when 100 * r / (whole * 2^s) exceeds half the
\* spacing 2^(e - 52) of the doubles just under k - 0.5, 2^e <= k - 0.5.
RoundPercent(part, whole) ==
    LET k == (200 * part + whole) \div (2 * whole)
        tie == 200 * part + whole = 2 * whole * k
        j == BinaryShift(part, whole, 0)
        r == (part * Pow2Mod(52 + j, whole)) % whole
        e == CHOOSE x \in 0..7 : 2^(x + 1) <= 2 * k - 1 /\ 2 * k - 1 < 2^(x + 2)
    IN  IF ~tie THEN k
        ELSE IF r = 0 \/ 2 * r > whole THEN k
        ELSE IF 200 * r <= whole * 2^(e + j) THEN k
        ELSE k - 1

\* (h.wakeUpOnTime ? 1 : 0) + ... + (h.noSocialMedia ? 1 : 0)
FlagsSet(h) == Cardinality({k \in HabitKeySet : h[k]})

\* monthHabits.reduce((sum, h) => sum + flags of h, 0)
RECURSIVE CompletedFlags(_)
CompletedFlags(hs) ==
    IF hs = <<>> THEN 0
    ELSE CompletedFlags(SubSeq(hs, 1, Len(hs) - 1)) + FlagsSet(hs[Len(hs)])

\* habits.filter(h => h.date.startsWith(currentMonth)), currentMonth 'yyyy-MM'
MonthHabits(hs, currentMonth) ==
    SelectSeq(hs, LAMBDA h : h.date[1] = currentMonth[1] /\ h.date[2] = currentMonth[2])

getMonthlyHabitCompletion(hs, today) ==
    LET currentMonth == SubSeq(FormatISO(today), 1, 2)
        monthHabits == MonthHabits(hs, currentMonth)
        total == Len(monthHabits) * 6
        completed == CompletedFlags(monthHabits)
        englishDays == Len(SelectSeq(monthHabits, LAMBDA h : h.englishPractice))
    IN  IF Len(monthHabits) = 0 THEN [overall |-> 0, english |-> 0]
        ELSE [overall |-> RoundPercent(completed, total),
              english |-> RoundPercent(englishDays, Len(monthHabits))]

GetMonthlyHabitCompletion ==
    /\ last' = [op |-> "getMonthlyHabitCompletion",
                ret |-> getMonthlyHabitCompletion(habits, now)]
    /\ UNCHANGED <<sessions, habits, targets, storage, now, nextId, ui>>

\* a month of habit records: one of an earlier month when `old`, then n
\* records on the first n days from ClockStart on, of which the first
\* `full` have all six flags, the next has the first `extra` flags and the
\* others have none
MonthLedger(n, full, extra, old) ==
    (IF old THEN <<MkHabits(FormatISO(0), HabitKeySet)>> ELSE <<>>)
      \o [i \in 1..n |->
            MkHabits(FormatISO(ClockStart + i - 1),
                     IF i <= full THEN HabitKeySet
                     ELSE IF i = full + 1 THEN {HabitKeys[x] : x \in 1..extra}
                     ELSE {})]

MonthLedgers ==
    {MonthLedger(n, full, extra, old) :
        n \in 0..MaxMonthRecords, full \in 0..MaxMonthRecords, extra \in 0..5,
        old \in BOOLEAN}

---------------------------------------------------------------------------
(* Target planner *)

Min(a, b) == IF a <= b THEN a ELSE b

\* Math.round(x * 10) / 10 on hundredths of an hour
RoundToTenth(x) == ((x + 5) \div 10) * 10

\* targets.find(t => t.weekStart === weekStart): the index of the first
\* match, 1-based; 0 where the code gets undefined
FindTarget(ts, weekStart) ==
    IF \E i \in 1..Len(ts) : ts[i].weekStart = weekStart
    THEN CHOOSE i \in 1..Len(ts) :
            ts[i].weekStart = weekStart
                /\ \A j \in 1..(i - 1) : ts[j].weekStart # weekStart
    ELSE 0

\* faulty variant of baseTarget: the step is taken only when the previous week was met
baseTargetIfMet(ts, prevWeekStart) ==
    LET prevTarget == FindTarget(ts, prevWeekStart)
    IN  IF prevTarget >= 1
        THEN (IF ts[prevTarget].met
              THEN Min(ts[prevTarget].targetHours + TargetStep, TargetCap)
              ELSE ts[prevTarget].targetHours)
        ELSE BaselineTarget

\* faulty variant of baseTarget: the cap is forgotten
baseTargetNoCap(ts, prevWeekStart) ==
    LET prevTarget == FindTarget(ts, prevWeekStart)
    IN  IF prevTarget >= 1
        THEN ts[prevTarget].targetHours + TargetStep
        ELSE BaselineTarget

\* prevTarget ? Math.min(prevTarget.targetHours + 0.5, 10) : 5
baseTarget(ts, prevWeekStart) ==
    LET prevTarget == FindTarget(ts, prevWeekStart)
    IN  IF prevTarget >= 1
        THEN Min(ts[prevTarget].targetHours + TargetStep, TargetCap)
        ELSE BaselineTarget

NewTarget(weekStart, hours) ==
    [weekStart |-> weekStart, targetHours |-> RoundToTenth(hours),
     actualHours |-> 0, met |-> FALSE]

\* faulty variant of currentWeekTargetEffect: no look-up of the current week
currentWeekTargetEffectNoLookup(ts, today) ==
    LET weekStart == FormatISO(StartOfWeek(today, 1))
        prevWeekStart == FormatISO(StartOfWeek(SubWeeks(today, 1), 1))
    IN  Append(ts, NewTarget(weekStart, baseTarget(ts, prevWeekStart)))

\* the effect that creates the current week's target (runs once per mount)
currentWeekTargetEffect(ts, today) ==
    LET weekStart == FormatISO(StartOfWeek(today, 1))
        existing == FindTarget(ts, weekStart)
        prevWeekStart == FormatISO(StartOfWeek(SubWeeks(today, 1), 1))
    IN  IF existing = 0
        THEN Append(ts, NewTarget(weekStart, baseTarget(ts, prevWeekStart)))
        ELSE ts

\* faulty variant of getCurrentWeekTarget: the most recent record is taken
\* for the current week's
getCurrentWeekTargetLatest(ts, today) ==
    LET weekStart == FormatISO(StartOfWeek(today, 1))
    IN  IF Len(ts) >= 1
        THEN ts[Len(ts)]
        ELSE [weekStart |-> weekStart, targetHours |-> DefaultTargetHours,
              actualHours |-> 0, met |-> FALSE]

getCurrentWeekTarget(ts, today) ==
    LET weekStart == FormatISO(StartOfWeek(today, 1))
        existing == FindTarget(ts, weekStart)
    IN  IF existing >= 1
        THEN ts[existing]
        ELSE [weekStart |-> weekStart, targetHours |-> DefaultTargetHours,
              actualHours |-> 0, met |-> FALSE]

GetCurrentWeekTarget ==
    /\ last' = [op |-> "getCurrentWeekTarget",
                ret |-> getCurrentWeekTarget(targets, now)]
    /\ UNCHANGED <<sessions, habits, targets, storage, now, nextId, ui>>

---------------------------------------------------------------------------
(* Progression: the weekly goal against the hours achieved *)

\* last7Days.reduce((s, d) => s + d.hours, 0), in hundredths of an hour
RECURSIVE SumHours(_)
SumHours(days) ==
    IF Len(days) = 0 THEN Num(0)
    ELSE JsAdd(SumHours(SubSeq(days, 1, Len(days) - 1)), days[Len(days)].hours)

\* Math.min(100, Math.round((totalThisWeek / (targetHours * 7)) * 100));
\* Math.round and Math.min give NaN on NaN
progressPercent(totalThisWeek, targetHours) ==
    IF totalThisWeek.t = "NaN" THEN NaN
    ELSE Num(Min(100, (200 * totalThisWeek.v + 7 * targetHours)
                          \div (14 * targetHours)))

\* what one render of Progression computes
Progression(ss, ts, today) ==
    LET currentTarget == getCurrentWeekTarget(ts, today)
        last7Days == getLast7DaysData(ss, today)
        totalThisWeek == SumHours(last7Days)
    IN  [currentTarget |-> currentTarget, totalThisWeek |-> totalThisWeek,
         progressPercent |-> progressPercent(totalThisWeek, currentTarget.targetHours)]

RenderProgression ==
    /\ view.activeTab = "progression"
    /\ last' = [op |-> "progression", ret |-> Progression(sessions, targets, now)]
    /\ UNCHANGED <<sessions, habits, targets, storage, now, nextId, ui>>

---------------------------------------------------------------------------
(* Mounting the hook: initial state from storage, then the effects *)

SaveAll(ss, hs, ts) ==
    [sessions |-> saveToStorage(StringifySessions(ss)),
     habits |-> saveToStorage(StringifyHabits(hs)),
     targets |-> saveToStorage(StringifyTargets(ts))]

EmptyStorage == [sessions |-> Absent, habits |-> Absent, targets |-> Absent]

MountSessions(store) == loadFromStorage(store.sessions, <<>>)
MountHabits(store) == loadFromStorage(store.habits, <<>>)
MountTargets(store, today) ==
    currentWeekTargetEffect(loadFromStorage(store.targets, <<>>), today)

\* first start of the application on a device with nothing stored
Init ==
    /\ now = ClockStart
    /\ nextId = 1
    /\ sessions = MountSessions(EmptyStorage)
    /\ habits = MountHabits(EmptyStorage)
    /\ targets = MountTargets(EmptyStorage, now)
    /\ storage = SaveAll(sessions, habits, targets)
    /\ form = NewForm(now)
    /\ view = RenderView("daily", now)
    /\ timer = NewTimer
    /\ last = [op |-> "mount", created |-> TRUE]

\* the page is loaded again: state is read back and the effects run
Reload ==
    /\ sessions' = MountSessions(storage)
    /\ habits' = MountHabits(storage)
    /\ targets' = MountTargets(storage, now)
    /\ storage' = SaveAll(sessions', habits', targets')
    /\ last' = [op |-> "mount",
                created |-> Len(targets') > Len(loadFromStorage(storage.targets, <<>>))]
    /\ form' = NewForm(now)
    /\ view' = RenderView("daily", now)
    /\ timer' = NewTimer
    /\ UNCHANGED <<now, nextId>>

\* a day passes, whether or not the page stays open
AdvanceClock ==
    /\ now + 1 < ClockStart + 7 * MaxWeeks
    /\ now' = now + 1
    /\ last' = [op |-> "tick"]
    /\ UNCHANGED <<sessions, habits, targets, storage, nextId, ui>>

---------------------------------------------------------------------------
(* Specifications *)

\* the hook has not mounted yet: the three keys hold whatever an earlier
\* run, another script of the origin or the user left there
StorageKeys == {"sessions", "habits", "targets"}

SampleList(key) ==
    CASE key = "sessions" ->
            <<StringifySession(NewSession(
                [date |-> FormatISO(ClockStart), subject |-> "math",
                 startTime |-> T0905, endTime |-> T1430,
                 focusQuality |-> Num(3), distractionCount |-> Num(0),
                 energyLevel |-> "medium", notes |-> ""], 1, Num(325)))>>
      [] key = "habits" -> <<MkHabits(FormatISO(ClockStart), {"exercise"})>>
      [] key = "targets" -> <<NewTarget(FormatISO(ClockStart), BaselineTarget)>>

RawItems(key) ==
    {Absent, EmptyText, MalformedText, NullText, NumberText, ObjectText,
     saveToStorage(<<>>), saveToStorage(SampleList(key))}

InitLoad ==
    /\ now = ClockStart
    /\ nextId = 1
    /\ sessions = <<>>
    /\ habits = <<>>
    /\ targets = <<>>
    /\ storage \in [sessions : RawItems("sessions"), habits : RawItems("habits"),
                    targets : RawItems("targets")]
    /\ form = NewForm(now)
    /\ view = RenderView("daily", now)
    /\ timer = NewTimer
    /\ last = [op |-> "boot"]

LoadFromStorage(key) ==
    /\ last' = [op |-> "loadFromStorage", key |-> key,
                ret |-> loadFromStorage(storage[key], <<>>)]
    /\ UNCHANGED <<sessions, habits, targets, storage, now, nextId, ui>>

NextLoad == \E key \in StorageKeys : LoadFromStorage(key)

\* the hook mounts on the last day of the records over the habits an earlier
\* run stored
InitMonth ==
    /\ now = ClockStart + MaxMonthRecords - 1
    /\ nextId = 1
    /\ sessions = <<>>
    /\ habits \in MonthLedgers
    /\ targets = MountTargets(EmptyStorage, now)
    /\ storage = SaveAll(sessions, habits, targets)
    /\ form = NewForm(now)
    /\ view = RenderView("daily", now)
    /\ timer = NewTimer
    /\ last = [op |-> "mount", created |-> TRUE]

NextMonth == GetMonthlyHabitCompletion

\* the three ledgers side by side, each with few inputs: one session draft,
\* records of two days, and days passing into the next week
FrameDrafts == {StatsDraft(ClockStart, "math", <<T0905, T1430>>, 3)}

FrameHabits ==
    {MkHabits(FormatISO(ClockStart + 1), {"exercise"}),
     MkHabits(FormatISO(ClockStart), HabitKeySet)}

NextFrame ==
    \/ \E session \in FrameDrafts : AddSession(session)
    \/ \E id \in SessionIds : DeleteSession(id)
    \/ \E dailyHabits \in FrameHabits : UpdateHabits(dailyHabits)
    \/ GetHabitsForDate(FormatISO(ClockStart))
    \/ GetSessionsForDate(FormatISO(ClockStart))
    \/ GetDailyTotalHours(FormatISO(ClockStart))
    \/ GetWeeklyStats(DateAt(StartOfWeek(ClockStart, 1), 0, 0))
    \/ GetHabitStreaks
    \/ GetMonthlyHabitCompletion
    \/ GetLast7DaysData
    \/ GetCurrentWeekTarget
    \/ (now < ClockStart + FrameDays /\ AdvanceClock)
    \/ Reload

NextForm ==
    \/ SetSubject("math")
    \/ SetStartTime(T0905)
    \/ SetEndTime(T1430)
    \/ \E text \in FocusTexts : SetFocusQuality(text)
    \/ \E text \in DistractionTexts : SetDistractionCount(text)
    \/ HandleAdd
    \/ Reload

ToggleKeys == {"exercise", "noPorn", "sleepEnough"}

NextToggle ==
    \/ \E tab \in {"daily", "habits"} : SetActiveTab(tab)
    \/ \E key \in ToggleKeys : ToggleHabit(key)
    \/ (now < ClockStart + ToggleDays /\ AdvanceClock)
    \/ Reload

NextTimer ==
    \/ \E tab \in {"daily", "timer"} : SetActiveTab(tab)
    \/ Countdown
    \/ DelayedSwitch
    \/ ToggleTimer
    \/ ResetTimer
    \/ SkipMode
    \/ \E m \in TimerModes : SelectMode(m)

NextProgress ==
    \/ \E session \in StatsDrafts : AddSession(session)
    \/ \E tab \in {"daily", "progression"} : SetActiveTab(tab)
    \/ RenderProgression

NextStats ==
    \/ \E session \in StatsDrafts : AddSession(session)
    \/ \E date \in StatsDates : GetDailyTotalHours(date)
    \/ \E weekStart \in WeekStarts : GetWeeklyStats(weekStart)
    \/ GetLast7DaysData
    \/ Reload

NextSessions ==
    \/ \E session \in Drafts : AddSession(session)
    \/ \E id \in SessionIds : DeleteSession(id)
    \/ Reload

NextHabits ==
    \/ \E dailyHabits \in HabitInputs : UpdateHabits(dailyHabits)
    \/ GetHabitStreaks
    \/ Reload

NextTargets ==
    \/ AdvanceClock
    \/ GetCurrentWeekTarget
    \/ Reload

Next ==
    \/ \E session \in Drafts : AddSession(session)
    \/ \E id \in SessionIds : DeleteSession(id)
    \/ \E dailyHabits \in HabitInputs : UpdateHabits(dailyHabits)
    \/ \E date \in StatsDates : GetHabitsForDate(date)
    \/ GetHabitStreaks
    \/ GetMonthlyHabitCompletion
    \/ \E date \in StatsDates : GetSessionsForDate(date)
    \/ \E date \in StatsDates : GetDailyTotalHours(date)
    \/ \E weekStart \in WeekStarts : GetWeeklyStats(weekStart)
    \/ GetLast7DaysData
    \/ GetCurrentWeekTarget
    \/ SetSubject("math")
    \/ SetStartTime(T0905)
    \/ SetEndTime(T1430)
    \/ \E text \in FocusTexts : SetFocusQuality(text)
    \/ \E text \in DistractionTexts : SetDistractionCount(text)
    \/ HandleAdd
    \/ \E tab \in Tabs : SetActiveTab(tab)
    \/ \E key \in HabitKeySet : ToggleHabit(key)
    \/ Countdown
    \/ DelayedSwitch
    \/ ToggleTimer
    \/ ResetTimer
    \/ SkipMode
    \/ \E m \in TimerModes : SelectMode(m)
    \/ RenderProgression
    \/ \E key \in StorageKeys : LoadFromStorage(key)
    \/ AdvanceClock
    \/ Reload

Spec == Init /\ [][Next]_vars
SpecSessions == Init /\ [][NextSessions]_vars
SpecHabits == Init /\ [][NextHabits]_vars
SpecTargets == Init /\ [][NextTargets]_vars
SpecLoad == InitLoad /\ [][NextLoad]_vars
SpecStats == Init /\ [][NextStats]_vars
SpecMonth == InitMonth /\ [][NextMonth]_vars
SpecFrame == Init /\ [][NextFrame]_vars
SpecForm == Init /\ [][NextForm]_vars
SpecToggle == Init /\ [][NextToggle]_vars
SpecTimer == Init /\ [][NextTimer]_vars
SpecProgress == Init /\ [][NextProgress]_vars

---------------------------------------------------------------------------
(* What the inputs mean, stated apart from the code that reads them *)

\* the minute of the day an HH:MM string of the inputs denotes
TimesOfDay == {T0905, T1300, T1430}
MinuteOfDay(s) == CASE s = T0905 -> 9 * 60 + 5
                    [] s = T1300 -> 13 * 60
                    [] s = T1430 -> 14 * 60 + 30

ValidTimes(draft) == draft.startTime \in TimesOfDay /\ draft.endTime \in TimesOfDay

\* a yyyy-MM-dd date as one number, ordered as the calendar is
Chrono(date) == date[1] * 10000 + date[2] * 100 + date[3]

\* day 0 is a Monday, so is every multiple of 7
MondayOf(day) == 7 * (day \div 7)

HasWeek(ts, weekStart) == \E i \in 1..Len(ts) : ts[i].weekStart = weekStart

IsPrefix(a, b) == Len(a) <= Len(b) /\ \A i \in 1..Len(a) : b[i] = a[i]

\* the days the clock of the model can show
ClockDays == 0..(ClockStart + 7 * MaxWeeks)

\* week `later` starts seven days after week `earlier`
IsNextWeek(earlier, later) ==
    \E d \in ClockDays : FormatISO(d) = earlier /\ FormatISO(d + 7) = later

\* the minutes of the sessions of `ss` dated on one of `dates`
RECURSIVE MinutesOn(_, _)
MinutesOn(ss, dates) ==
    IF ss = <<>> THEN 0
    ELSE MinutesOn(SubSeq(ss, 1, Len(ss) - 1), dates)
           + (IF ss[Len(ss)].date \in dates /\ ss[Len(ss)].durationMinutes.t = "num"
              THEN ss[Len(ss)].durationMinutes.v ELSE 0)

\* the week of target t was met: the flag says so, or the hours studied in
\* that week reach seven times the daily target
WeekWasMet(t) ==
    \/ t.met
    \/ \E d \in ClockDays :
          /\ FormatISO(d) = t.weekStart
          /\ MinutesOn(sessions, {FormatISO(d + k) : k \in 0..6}) * 100
                >= 7 * t.targetHours * 60

---------------------------------------------------------------------------
(* Session ledger: C1 - C4 *)

\* C1: addSession with a draft whose endTime is not strictly after its
\* startTime (end before start, or end equal to start) is a no-op: the
\* session collection, and what is persisted of it, is the same after the
\* call as before it.
C1_AddSessionNoOpWhenEndNotAfterStart ==
    [][(/\ last'.op = "addSession"
        /\ ValidTimes(last'.draft)
        /\ MinuteOfDay(last'.draft.endTime) <= MinuteOfDay(last'.draft.startTime))
       => (sessions' = sessions /\ storage' = storage /\ nextId' = nextId)]_vars

\* a call with start 14:30 / end 09:05 has returned on a ledger holding a record
C1_Witness ==
    /\ last.op = "addSession"
    /\ last.draft.startTime = T1430
    /\ last.draft.endTime = T0905
    /\ Len(sessions) >= 1

\* C2: in every state reached by addSession and deleteSession calls from an
\* empty ledger, whatever the drafts (also drafts whose startTime or endTime
\* is no valid HH:MM string), every session of the ledger has a strictly
\* positive integer durationMinutes.
C2_DurationStrictlyPositive ==
    \A i \in 1..Len(sessions) :
        sessions[i].durationMinutes.t = "num" /\ sessions[i].durationMinutes.v > 0

\* C3: for every draft with valid same-day HH:MM times and startTime before
\* endTime, addSession stores a record whose durationMinutes is exactly
\* (end hour * 60 + end minute) - (start hour * 60 + start minute).
C3_DurationIsEndMinusStart ==
    [][(/\ last'.op = "addSession"
        /\ ValidTimes(last'.draft)
        /\ MinuteOfDay(last'.draft.startTime) < MinuteOfDay(last'.draft.endTime))
       => (/\ Len(sessions') = Len(sessions) + 1
           /\ sessions'[Len(sessions')].durationMinutes =
                Num(MinuteOfDay(last'.draft.endTime)
                      - MinuteOfDay(last'.draft.startTime))
           /\ sessions'[Len(sessions')].startTime = last'.draft.startTime
           /\ sessions'[Len(sessions')].endTime = last'.draft.endTime)]_vars

\* a 09:05 - 14:30 session stored with 325 minutes, after a 13:00 - 14:30 one
C3_Witness ==
    /\ last.op = "addSession"
    /\ last.draft.startTime = T0905
    /\ last.draft.endTime = T1430
    /\ Len(sessions) = 2
    /\ sessions[1].durationMinutes = Num(90)
    /\ sessions[2].durationMinutes = Num(325)

\* C4: deleteSession(id) with an id that is not in the ledger leaves the
\* collection unchanged; with an id that is in the ledger it removes the one
\* record with that id and leaves the others as they were and in their
\* order; no record with that id is left, so a second call changes nothing.
C4_DeleteSessionRemovesExactlyOne ==
    [][last'.op = "deleteSession"
       => IF \E i \in 1..Len(sessions) : sessions[i].id = last'.id
          THEN /\ \E i \in 1..Len(sessions) :
                    /\ sessions[i].id = last'.id
                    /\ sessions' = SubSeq(sessions, 1, i - 1)
                                     \o SubSeq(sessions, i + 1, Len(sessions))
               /\ \A j \in 1..Len(sessions') : sessions'[j].id # last'.id
          ELSE sessions' = sessions]_vars

\* the middle one of three records has been deleted
C4_Witness ==
    /\ last.op = "deleteSession"
    /\ last.id = 2
    /\ Len(sessions) = 2
    /\ sessions[1].id = 1
    /\ sessions[2].id = 3

---------------------------------------------------------------------------
(* Habit ledger: C5 - C7 *)

\* C5: after updateHabits(r) the stored record for r.date equals r in all
\* six flags (a whole-record replace, no merge with the previous record),
\* every record of another date is unchanged, and the number of records
\* grows by one exactly when r.date had no record before.
C5_UpdateHabitsReplacesWholeRecord ==
    [][last'.op = "updateHabits"
       => LET r == last'.record
              had == \E i \in 1..Len(habits) : habits[i].date = r.date
          IN  /\ \E i \in 1..Len(habits') : habits'[i] = r
              /\ \A i \in 1..Len(habits') :
                    habits'[i].date = r.date => habits'[i] = r
              /\ \A i \in 1..Len(habits) :
                    habits[i].date # r.date
                        => (i <= Len(habits') /\ habits'[i] = habits[i])
              /\ Len(habits') = Len(habits) + (IF had THEN 0 ELSE 1)]_vars

\* the first of several records has been replaced by an all-false record
C5_Witness ==
    /\ last.op = "updateHabits"
    /\ Len(habits) >= 2
    /\ habits[1] = last.record
    /\ \A k \in HabitKeySet : ~last.record[k]

\* C6: in every state reached by updateHabits calls from an empty habit
\* ledger, the habit collection holds at most one record per date.
C6_OneHabitRecordPerDate ==
    \A i, j \in 1..Len(habits) : habits[i].date = habits[j].date => i = j

\* every date has a record and a date recorded earlier has been updated again
C6_Witness ==
    /\ last.op = "updateHabits"
    /\ Len(habits) = NumHabitDates
    /\ habits[2] = last.record

\* C7: for each habit key on its own, getHabitStreaks returns the number of
\* consecutive records with that flag true, counted over the records in date
\* order from the most recent date backward up to the first false or the
\* start of history: the number of records that have the flag true together
\* with every later record. No record: every streak is 0. A false flag in
\* the most recent record: streak 0 for that key, whatever the other keys.
C7_StreakCountsBackFromMostRecent ==
    last.op = "getHabitStreaks"
    => \A key \in HabitKeySet :
          /\ last.ret[key] =
                Cardinality({i \in 1..Len(habits) :
                    \A j \in 1..Len(habits) :
                        Chrono(habits[j].date) >= Chrono(habits[i].date)
                            => habits[j][key]})
          /\ habits = <<>> => last.ret[key] = 0
          /\ \A i \in 1..Len(habits) :
                ((\A j \in 1..Len(habits) :
                     Chrono(habits[j].date) <= Chrono(habits[i].date))
                 /\ ~habits[i][key]) => last.ret[key] = 0

\* three records entered out of date order; exercise has a streak of 2 that
\* an older false ended, sleepEnough is false on the most recent date
C7_Witness ==
    /\ last.op = "getHabitStreaks"
    /\ Len(habits) = 3
    /\ Chrono(habits[3].date) < Chrono(habits[1].date)
    /\ last.ret["exercise"] = 2
    /\ last.ret["sleepEnough"] = 0
    /\ last.ret["noPorn"] = 0

---------------------------------------------------------------------------
(* Target planner: C8 - C10 *)

C9_TargetCreatedOncePerWeek ==
    [][/\ IsPrefix(targets, targets')
       /\ IsPrefix(storage.targets.data, storage'.targets.data)
       /\ \A i, j \in 1..Len(targets') :
            targets'[i].weekStart = targets'[j].weekStart => i = j]_vars

\* the application was started again in a week that had its record already
C9_Witness ==
    /\ last.op = "mount"
    /\ ~last.created
    /\ Len(targets) >= 2
    /\ HasWeek(targets, FormatISO(MondayOf(now)))

\* C10: in every reachable state every stored weekly target has targetHours
\* between 5 and 10 inclusive and a multiple of 0.5; the target never
\* exceeds 10 however many successive weeks are evaluated.
C10_TargetHoursWithinFiveAndTen ==
    \A i \in 1..Len(targets) :
        /\ targets[i].targetHours >= 500
        /\ targets[i].targetHours <= 1000
        /\ targets[i].targetHours % 50 = 0

\* two successive weeks at 10 h: the second one was held at the cap
C10_Witness ==
    \E i, j \in 1..Len(targets) :
        /\ targets[i].targetHours = 1000
        /\ targets[j].targetHours = 1000
        /\ Chrono(targets[i].weekStart) < Chrono(targets[j].weekStart)

---------------------------------------------------------------------------
(* Target planner: C11 - C13, C20 *)

\* C11: targetHours is non-decreasing week over week: of any two stored
\* target records the one with the later weekStart has targetHours greater
\* than or equal to the other's, whatever the history of application starts
\* (also when the application is not opened during one or more weeks).
C11_TargetNonDecreasing ==
    \A i, j \in 1..Len(targets) :
        Chrono(targets[i].weekStart) < Chrono(targets[j].weekStart)
            => targets[i].targetHours <= targets[j].targetHours

\* C12: the weekly target increases by 0.5 h from one week to the next only
\* if the previous week's target was met; when it was not met the new
\* week's target does not increase.
C12_TargetIncreasesOnlyWhenMet ==
    \A i, j \in 1..Len(targets) :
        (/\ IsNextWeek(targets[i].weekStart, targets[j].weekStart)
         /\ targets[j].targetHours > targets[i].targetHours)
            => WeekWasMet(targets[i])

\* C13: after initialisation the targets collection always holds a record
\* for the current week, also after the clock crosses into a new week while
\* the application stays open.
C13_CurrentWeekAlwaysHasTarget ==
    HasWeek(targets, FormatISO(MondayOf(now)))

\* C20: getCurrentWeekTarget returns the stored record whose weekStart is
\* the current week's Monday when there is one, and otherwise the default
\* {weekStart: current Monday, targetHours: 5, actualHours: 0, met: false};
\* in both cases the targets collection and the persisted store are left as
\* they were (the default is never inserted).
C20_GetCurrentWeekTargetReadsOnly ==
    [][last'.op = "getCurrentWeekTarget"
       => LET monday == FormatISO(MondayOf(now))
          IN  /\ targets' = targets
              /\ storage' = storage
              /\ \A i \in 1..Len(targets) :
                    targets[i].weekStart = monday => last'.ret = targets[i]
              /\ ~HasWeek(targets, monday)
                    => last'.ret = [weekStart |-> monday, targetHours |-> 500,
                                    actualHours |-> 0, met |-> FALSE]]_vars

\* the query has answered with the default in a week that has no record,
\* while last week's record stands at 5.5 h, and nothing was inserted
C20_Witness ==
    /\ last.op = "getCurrentWeekTarget"
    /\ ~HasWeek(targets, FormatISO(MondayOf(now)))
    /\ last.ret.targetHours = 500
    /\ last.ret.weekStart = FormatISO(MondayOf(now))
    /\ Len(targets) = 2
    /\ targets[2].targetHours = 550
    /\ targets[2].weekStart = FormatISO(MondayOf(now) - 7)
    /\ storage.targets.data = targets

---------------------------------------------------------------------------
(* Persistence: C14 *)

\* C14: every mutating operation (addSession, deleteSession, updateHabits,
\* target creation) is atomic with its persist: in no observable state does
\* an in-memory collection differ from the collection persisted under its
\* key, and after each operation the persisted content is the full
\* in-memory collection.
C14_MemoryEqualsPersisted ==
    /\ loadFromStorage(storage.sessions, <<>>) = sessions
    /\ loadFromStorage(storage.habits, <<>>) = habits
    /\ loadFromStorage(storage.targets, <<>>) = targets

---------------------------------------------------------------------------
(* Loading: C15 *)

\* C15: load(key, fallback) returns the stored list when the key holds a
\* well-formed list, and the fallback (the empty collection) whenever the
\* key is absent or its content is not one: unparseable text, or parseable
\* text that is not a list (null, a number, an object); the loaded
\* collection is a list in every case.
C15_LoadFallsBackToEmptyList ==
    last.op = "loadFromStorage"
        => LET item == storage[last.key]
           IN  /\ item.kind = "json" => last.ret = item.data
               /\ item.kind # "json" => last.ret = <<>>

---------------------------------------------------------------------------
(* Statistics: C16 - C18 *)

\* the positions of the sessions dated `date`
SessionsOn(date) == {i \in 1..Len(sessions) : sessions[i].date = date}

\* C16: getDailyTotalHours(d) is the sum of durationMinutes of the sessions
\* dated d, divided by 60 and rounded to two decimals (round(x*100)/100,
\* halves upwards); it is 0 when no session is dated d, and a session of
\* another date never counts.  (The result is held in hundredths of an hour;
\* a sum that is NaN gives NaN.)
C16_DailyTotalIsRoundedSum ==
    last.op = "getDailyTotalHours"
        => LET total == MinutesOn(sessions, {last.date})
               hasNaN == \E i \in SessionsOn(last.date) :
                            sessions[i].durationMinutes.t = "NaN"
           IN  /\ SessionsOn(last.date) = {} => last.ret = Num(0)
               /\ hasNaN => last.ret.t = "NaN"
               /\ ~hasNaN =>
                    /\ last.ret.t = "num"
                    /\ 6 * last.ret.v <= 10 * total + 3
                    /\ 10 * total + 3 < 6 * (last.ret.v + 1)

\* two sessions of 325 minutes on the date asked for and one session of
\* another date: 650 / 60 = 10.8333.. is answered as 10.83
C16_Witness ==
    /\ last.op = "getDailyTotalHours"
    /\ Cardinality(SessionsOn(last.date)) = 2
    /\ Len(sessions) = 3
    /\ MinutesOn(sessions, {last.date}) = 650
    /\ last.ret = Num(1083)

\* the answer of getWeeklyStats takes into account exactly the sessions
\* dated on one of `dates`: their number, their subjects, and (when none of
\* them lacks a duration) their minutes
CountsExactly(dates) ==
    LET taken == {i \in 1..Len(sessions) : sessions[i].date \in dates}
    IN  /\ last.ret.sessionCount = Cardinality(taken)
        /\ DOMAIN last.ret.subjectMap = {sessions[i].subject : i \in taken}
        /\ (\A i \in taken : sessions[i].durationMinutes.t # "NaN")
              => /\ last.ret.totalHours.t = "ratio"
                 /\ last.ret.totalHours.n = MinutesOn(sessions, dates)

\* C17 as stated: getWeeklyStats(weekStart) takes into account exactly the
\* sessions whose date d satisfies weekStart <= d <= weekStart + 6 days, for
\* every weekStart passed, a Monday or not.
C17_WeekIsStartPlusSixDays ==
    last.op = "getWeeklyStats"
        => LET first == last.weekStart.t \div 1440
           IN  CountsExactly({FormatISO(first + k) : k \in 0..6})

\* C17 amended: getWeeklyStats(weekStart) takes into account exactly the
\* sessions whose date begins at or after the instant weekStart and is not
\* later than the Sunday ending the Monday-based week weekStart lies in;
\* this is weekStart .. weekStart + 6 days when weekStart is the midnight of
\* a Monday, as the dashboard passes it.
C17_WeekEndsOnSunday ==
    last.op = "getWeeklyStats"
        => LET day == last.weekStart.t \div 1440
               first == IF last.weekStart.t % 1440 = 0 THEN day ELSE day + 1
               sunday == MondayOf(day) + 6
           IN  CountsExactly({FormatISO(d) : d \in first..sunday})

\* asked from the Wednesday, with sessions on the Monday before, on the
\* Sunday and on the Monday after: only the Sunday's session is counted
C17_Witness ==
    /\ last.op = "getWeeklyStats"
    /\ last.weekStart = DateAt(ClockStart + 2, 0, 0)
    /\ {sessions[i].date : i \in 1..Len(sessions)}
          = {FormatISO(ClockStart), FormatISO(ClockStart + 6), FormatISO(ClockStart + 7)}
    /\ last.ret.sessionCount = 1
    /\ DOMAIN last.ret.subjectMap = {"physics"}

\* the dates of the week range of getWeeklyStats(weekStart)
WeekDates(weekStart) ==
    LET day == weekStart.t \div 1440
        first == IF weekStart.t % 1440 = 0 THEN day ELSE day + 1
    IN  {FormatISO(d) : d \in first..(MondayOf(day) + 6)}

\* the sum of the durations of the sessions of `ss` dated on one of `dates`:
\* not a number as soon as one of them is not
TotalMinutes(ss, dates) ==
    IF \E i \in 1..Len(ss) : ss[i].date \in dates /\ ss[i].durationMinutes.t = "NaN"
    THEN NaN
    ELSE Num(MinutesOn(ss, dates))

\* the sum of the focusQuality of the sessions of `ss` dated on one of `dates`
RECURSIVE FocusOn(_, _)
FocusOn(ss, dates) ==
    IF ss = <<>> THEN 0
    ELSE FocusOn(SubSeq(ss, 1, Len(ss) - 1), dates)
           + (IF ss[Len(ss)].date \in dates THEN ss[Len(ss)].focusQuality.v ELSE 0)

\* the sum of the values of a subjectMap over `keys`
RECURSIVE SumValues(_, _)
SumValues(m, keys) ==
    IF keys = {} THEN Num(0)
    ELSE LET k == CHOOSE x \in keys : TRUE
         IN  JsAdd(SumValues(m, keys \ {k}), m[k])

\* x is the number a / d
IsQuotient(x, a, d) ==
    \/ a.t = "NaN" /\ x.t = "NaN"
    \/ a.t = "num" /\ x.t = "ratio" /\ x.n * d = a.v * x.d

\* C18: over the sessions in the week range getWeeklyStats returns
\* sessionCount = their number, totalHours = the sum of durationMinutes / 60
\* (unrounded), avgFocus = the mean focusQuality (0 when there are none) and
\* a subjectMap that maps each subject occurring in the range to the total
\* minutes of that subject, so that the subjectMap values sum to
\* totalHours * 60 and no subject from outside the range appears.
C18_WeeklyStatsValues ==
    last.op = "getWeeklyStats"
        => LET dates == WeekDates(last.weekStart)
               taken == {i \in 1..Len(sessions) : sessions[i].date \in dates}
               r == last.ret
           IN  /\ r.sessionCount = Cardinality(taken)
               /\ IsQuotient(r.totalHours, TotalMinutes(sessions, dates), 60)
               /\ taken = {} => r.avgFocus.t = "num" /\ r.avgFocus.v = 0
               /\ taken # {} => IsQuotient(r.avgFocus, Num(FocusOn(sessions, dates)),
                                           Cardinality(taken))
               /\ DOMAIN r.subjectMap = {sessions[i].subject : i \in taken}
               /\ \A k \in DOMAIN r.subjectMap :
                     r.subjectMap[k] =
                        TotalMinutes(SelectSeq(sessions, LAMBDA s : s.subject = k), dates)
               /\ IsQuotient(r.totalHours,
                             SumValues(r.subjectMap, DOMAIN r.subjectMap), 60)

---------------------------------------------------------------------------
(* Habit statistics: C19 *)

\* the positions of the habit records dated in the month of today
InCurrentMonth ==
    {i \in 1..Len(habits) :
        /\ habits[i].date[1] = FormatISO(now)[1]
        /\ habits[i].date[2] = FormatISO(now)[2]}

\* the flags that are true in the records at `positions`
TrueFlags(positions) == {<<i, k>> \in positions \X HabitKeySet : habits[i][k]}

\* r is 100 * part / whole rounded to the nearest integer, halves upwards
IsRoundedPercent(r, part, whole) ==
    /\ r \in 0..100
    /\ 2 * whole * r <= 200 * part + whole
    /\ 200 * part + whole < 2 * whole * (r + 1)

\* C19: getMonthlyHabitCompletion considers only the records dated in the
\* current calendar month and returns overall = round(100 * trueFlags /
\* (6 * recordCount)) and english = round(100 * recordsWithEnglishPractice /
\* recordCount), both integers in 0..100; both are 0 when the month has no
\* record.
C19_MonthlyCompletionIsRounded ==
    last.op = "getMonthlyHabitCompletion"
        => LET n == Cardinality(InCurrentMonth)
               flags == Cardinality(TrueFlags(InCurrentMonth))
               english == Cardinality({i \in InCurrentMonth : habits[i].englishPractice})
           IN  /\ n = 0 => last.ret = [overall |-> 0, english |-> 0]
               /\ n > 0 => /\ IsRoundedPercent(last.ret.overall, flags, 6 * n)
                           /\ IsRoundedPercent(last.ret.english, english, n)

---------------------------------------------------------------------------
(* Last seven days: C21 *)

\* C21: getLast7DaysData returns exactly 7 entries for 7 consecutive
\* calendar dates in ascending order, the first 6 days before today and the
\* last today; each entry's hours is getDailyTotalHours of its date and its
\* sessions is getSessionsForDate of its date.
C21_Last7DaysAscendingToToday ==
    last.op = "getLast7DaysData"
        => /\ Len(last.ret) = 7
           /\ \A k \in 1..7 :
                /\ last.ret[k].fullDate = FormatISO(now - 7 + k)
                /\ last.ret[k].hours = getDailyTotalHours(sessions, last.ret[k].fullDate)
                /\ last.ret[k].sessions
                     = SelectSeq(sessions, LAMBDA s : s.date = last.ret[k].fullDate)
           /\ \A k \in 1..6 :
                Chrono(last.ret[k].fullDate) < Chrono(last.ret[k + 1].fullDate)

\* the seven days run over a month's end, and the ledger has sessions on the
\* last two of them and one on a later date that no entry shows
C21_Witness ==
    /\ last.op = "getLast7DaysData"
    /\ last.ret[1].fullDate[2] # last.ret[7].fullDate[2]
    /\ Len(last.ret[6].sessions) = 1
    /\ Len(last.ret[7].sessions) = 1
    /\ last.ret[7].hours = Num(542)
    /\ Len(sessions) = 3

---------------------------------------------------------------------------
(* Session ledger: C22 *)

\* the fields a draft hands over
DraftFields ==
    {"date", "subject", "startTime", "endTime", "focusQuality",
     "distractionCount", "energyLevel", "notes"}

\* C22: a successful addSession appends exactly one record at the end of
\* the ledger, carrying the draft's fields and an identifier different from
\* every identifier already in the ledger; the records already there keep
\* their field values and their order, so getSessionsForDate(d) returns the
\* sessions of date d in the order they were added.
C22_AddSessionAppendsAtEnd ==
    [][(last'.op = "addSession" /\ sessions' # sessions)
       => /\ Len(sessions') = Len(sessions) + 1
          /\ SubSeq(sessions', 1, Len(sessions)) = sessions
          /\ \A f \in DraftFields : sessions'[Len(sessions')][f] = last'.draft[f]
          /\ \A i \in 1..Len(sessions) : sessions[i].id # sessions'[Len(sessions')].id
          /\ \A d \in SessionDates :
                getSessionsForDate(sessions', d)
                  = getSessionsForDate(sessions, d)
                      \o (IF last'.draft.date = d
                          THEN <<sessions'[Len(sessions')]>> ELSE <<>>)]_vars

\* a session has been added behind one of the same date, after the first
\* record of the ledger had been deleted
C22_Witness ==
    /\ last.op = "addSession"
    /\ Len(sessions) = 2
    /\ sessions[1].id = 2
    /\ sessions[2].id = 3
    /\ sessions[1].date = sessions[2].date
    /\ sessions[2].startTime = last.draft.startTime
    /\ sessions[2].durationMinutes = Num(90)

---------------------------------------------------------------------------
(* Independence of the collections: C23 *)

QueryOps ==
    {"getHabitsForDate", "getSessionsForDate", "getDailyTotalHours",
     "getWeeklyStats", "getHabitStreaks", "getMonthlyHabitCompletion",
     "getLast7DaysData"}

\* C23: the three collections are independent: addSession and deleteSession
\* leave habits and targets unchanged, updateHabits leaves sessions and
\* targets unchanged, the creation of the current week's target leaves
\* sessions and habits unchanged (they are what the mount loaded, and their
\* persisted copies are untouched), and every query leaves all three
\* collections unchanged.
C23_CollectionsIndependent ==
    [][/\ last'.op \in {"addSession", "deleteSession"}
            => /\ habits' = habits /\ targets' = targets
               /\ storage'.habits = storage.habits
               /\ storage'.targets = storage.targets
       /\ last'.op = "updateHabits"
            => /\ sessions' = sessions /\ targets' = targets
               /\ storage'.sessions = storage.sessions
               /\ storage'.targets = storage.targets
       /\ (last'.op = "mount" /\ last'.created)
            => /\ sessions' = loadFromStorage(storage.sessions, <<>>)
               /\ habits' = loadFromStorage(storage.habits, <<>>)
               /\ storage'.sessions = storage.sessions
               /\ storage'.habits = storage.habits
       /\ last'.op \in QueryOps
            => /\ sessions' = sessions /\ habits' = habits /\ targets' = targets
               /\ storage' = storage]_vars

\* the streaks have been asked of a ledger whose records are not in date
\* order, with a session and two targets stored: the records stand as entered
C23_Witness ==
    /\ last.op = "getHabitStreaks"
    /\ Len(habits) = 2
    /\ DateBefore(habits[2].date, habits[1].date)
    /\ Len(sessions) >= 1
    /\ Len(targets) = 2

---------------------------------------------------------------------------
(* Habit streaks: C24 *)

\* record i is dated before record j and no record lies between the two
Adjacent(i, j) ==
    /\ Chrono(habits[i].date) < Chrono(habits[j].date)
    /\ \A k \in 1..Len(habits) :
          ~(/\ Chrono(habits[i].date) < Chrono(habits[k].date)
            /\ Chrono(habits[k].date) < Chrono(habits[j].date))

\* record j is the most recent one
MostRecent(j) ==
    \A k \in 1..Len(habits) : Chrono(habits[k].date) <= Chrono(habits[j].date)

\* some calendar date between the dates of records i and j has no record
GapBetween(i, j) ==
    \E day \in ClockDays :
        /\ Chrono(habits[i].date) < Chrono(FormatISO(day))
        /\ Chrono(FormatISO(day)) < Chrono(habits[j].date)
        /\ \A k \in 1..Len(habits) : habits[k].date # FormatISO(day)

\* C24: streaks are computed over recorded dates only: a calendar date
\* without a habit record between two recorded dates does not end a streak,
\* whereas a recorded false for that key does; records true on day 1 and
\* day 3 with no record for day 2 give streak 2.
C24_MissingDateKeepsStreak ==
    last.op = "getHabitStreaks"
        => \A key \in HabitKeySet : \A i, j \in 1..Len(habits) :
              (MostRecent(j) /\ Adjacent(i, j) /\ habits[j][key])
                 => /\ (GapBetween(i, j) /\ habits[i][key]) => last.ret[key] >= 2
                    /\ (GapBetween(i, j) /\ habits[i][key] /\ Len(habits) = 2)
                          => last.ret[key] = 2
                    /\ ~habits[i][key] => last.ret[key] = 1

\* two records two days apart, both with exercise done, none for the day
\* between: the streak is 2
C24_Witness ==
    /\ last.op = "getHabitStreaks"
    /\ Len(habits) = 2
    /\ \E i, j \in 1..2 :
          /\ ParseISO(habits[i].date).t + 2 * 1440 = ParseISO(habits[j].date).t
          /\ habits[i].exercise /\ habits[j].exercise
    /\ last.ret["exercise"] = 2

---------------------------------------------------------------------------
(* DailyLog form: C25 *)

\* C25: every session stored through the DailyLog form has focusQuality an
\* integer in 1..5 and distractionCount an integer >= 0, whatever the user
\* types into the form fields (an empty or a negative distraction count
\* included).
C25_FormSessionsWellTyped ==
    \A i \in 1..Len(sessions) :
        /\ sessions[i].focusQuality.t = "num"
        /\ sessions[i].focusQuality.v \in 1..5
        /\ sessions[i].distractionCount.t = "num"
        /\ sessions[i].distractionCount.v >= 0

---------------------------------------------------------------------------
(* Habit toggles: C26 *)

\* the flags of the record stored for the date, all false where none is stored
StoredFlags(hs, date) ==
    IF \E i \in 1..Len(hs) : hs[i].date = date
    THEN LET h == hs[CHOOSE i \in 1..Len(hs) : hs[i].date = date]
         IN  [k \in HabitKeySet |-> h[k]]
    ELSE [k \in HabitKeySet |-> FALSE]

\* C26: a toggle of a habit flips exactly that flag in the record stored for
\* today (the day of the click) and leaves today's other five flags as they
\* were stored
C26_ToggleFlipsTodaysFlag ==
    [][last'.op = "toggleHabit" =>
         LET today == FormatISO(now)
         IN  /\ \E i \in 1..Len(habits') : habits'[i].date = today
             /\ \A k \in HabitKeySet :
                   StoredFlags(habits', today)[k] =
                       IF k = last'.key THEN ~StoredFlags(habits, today)[k]
                       ELSE StoredFlags(habits, today)[k]]_vars

---------------------------------------------------------------------------
(* Pomodoro timer: C27 - C29 *)

\* the full duration of a mode in seconds: 25, 5 and 15 minutes
FullSeconds(mode) ==
    CASE mode = "work" -> 1500
      [] mode = "shortBreak" -> 300
      [] mode = "longBreak" -> 900

UserTimerOps == {"toggleTimer", "reset", "skip", "selectMode"}

\* C27: when a running countdown reaches zero the timer stops; after work the
\* next mode is longBreak if the new count of completed sessions is a
\* multiple of 4 and shortBreak otherwise, after a break it is work; the
\* switch that follows puts the timer in that mode, stopped, with the full
\* duration of the mode
C27_CountdownEndSwitchesMode ==
    [][/\ last'.op = "countdown" /\ timer.timeLeft <= 1 =>
            /\ ~timer'.isRunning
            /\ timer'.pending =
                  IF timer.mode # "work" THEN "work"
                  ELSE IF \E n \in 1..MaxCompletions :
                              timer'.sessionsCompleted = 4 * n
                       THEN "longBreak" ELSE "shortBreak"
       /\ last'.op = "delayedSwitch" =>
            /\ timer'.mode = timer.pending
            /\ timer'.timeLeft = FullSeconds(timer.pending)
            /\ ~timer'.isRunning]_vars

\* the fourth work session has ended and the timer has moved to the long break
C27_Witness ==
    /\ last.op = "delayedSwitch"
    /\ timer.mode = "longBreak"
    /\ timer.sessionsCompleted = 4
    /\ timer.timeLeft = 900
    /\ ~timer.isRunning

\* C28: totalFocusMinutes = 25 * sessionsCompleted in every state; a work
\* countdown that reaches zero adds one session and 25 minutes, and no other
\* step of the timer (break ending, scheduled switch, start/pause, reset,
\* skip, mode selection) changes either counter
C28_FocusMinutesMatchSessions ==
    /\ [](timer.totalFocusMinutes = 25 * timer.sessionsCompleted)
    /\ [][IF last'.op = "countdown" /\ timer.timeLeft <= 1 /\ timer.mode = "work"
          THEN /\ timer'.sessionsCompleted = timer.sessionsCompleted + 1
               /\ timer'.totalFocusMinutes = timer.totalFocusMinutes + 25
          ELSE last'.op \in UserTimerOps \cup {"countdown", "delayedSwitch"} =>
               /\ timer'.sessionsCompleted = timer.sessionsCompleted
               /\ timer'.totalFocusMinutes = timer.totalFocusMinutes]_vars

\* a break has run to its end after a work session was counted
C28_Witness ==
    /\ last.op = "countdown"
    /\ last.done
    /\ timer.pending = "work"
    /\ timer.sessionsCompleted = 1
    /\ timer.totalFocusMinutes = 25

\* C29: a user action taken between the end of a countdown and the scheduled
\* switch is not overridden: when the switch runs right after the action,
\* the mode, timeLeft and running state stay what the action left
C29_DelayedSwitchKeepsUserChoice ==
    [][last'.op = "delayedSwitch" /\ last.op \in UserTimerOps =>
         /\ timer'.mode = timer.mode
         /\ timer'.timeLeft = timer.timeLeft
         /\ timer'.isRunning = timer.isRunning]_vars

---------------------------------------------------------------------------
(* Progression: C30 *)

\* the dates of the Monday-to-Sunday week that holds `day`
CurrentWeekDates(day) == {FormatISO(d) : d \in MondayOf(day)..(MondayOf(day) + 6)}

\* the hours, in hundredths and rounded day by day, of the sessions of `ss`
\* dated on one of `dates`
RECURSIVE HoursOn(_, _)
HoursOn(ss, dates) ==
    IF dates = {} THEN 0
    ELSE LET d == CHOOSE x \in dates : TRUE
         IN  HoursOn(ss, dates \ {d}) + (10 * MinutesOn(ss, {d}) + 3) \div 6

\* C30: the hours Progression sets against the weekly goal are those of the
\* sessions dated in the current Monday-to-Sunday week, the week of the
\* target shown, and the percentage shown is an integer in 0..100
C30_ProgressCountsCurrentWeek ==
    last.op = "progression" =>
        /\ last.ret.currentTarget.weekStart = FormatISO(MondayOf(now))
        /\ last.ret.totalThisWeek = Num(HoursOn(sessions, CurrentWeekDates(now)))
        /\ last.ret.progressPercent.t = "num"
        /\ last.ret.progressPercent.v \in 0..100

===========================================================================
